---- MODULE Spec2Model ----
(***************************************************************************)
(* A model of prime_rl/trainer/loss.py: the GRPO loss dispatcher, its two  *)
(* loss engines, the entropy-based token selector, the masked reducer and  *)
(* the score shifter.                                                      *)
(*                                                                         *)
(* Float tensor elements are fixed-point numbers (an integer n stands for  *)
(* n / Scale) extended with the IEEE-754 specials NaN, +Inf and -Inf.      *)
(* A (batch, seq) tensor is a sequence of rows, each a sequence of         *)
(* elements; a (batch, seq, vocab) tensor holds a sequence over the        *)
(* vocabulary at every position.                                           *)
(***************************************************************************)
EXTENDS Integers, Sequences, FiniteSets, TLC

VARIABLES
    fn,     \* the function under call
    args,   \* its arguments
    pc,     \* "call" before the call, "done" after a return, "raised" after a raise
    ret,    \* what it returned
    frame,  \* the callee's local tensors when it returned
    calls,  \* the functions of the module entered during the call, in order
    args2,  \* the arguments of a second call of the same function
    ret2    \* what the second call returned

vars == <<fn, args, pc, ret, frame, calls, args2, ret2>>

(***************************************************************************)
(* Floats                                                                  *)
(***************************************************************************)
Scale == 1000

Fin(n) == [k |-> "fin", v |-> n]
NaN == [k |-> "nan", v |-> 0]
PInf == [k |-> "pinf", v |-> 0]
NInf == [k |-> "ninf", v |-> 0]

IsFin(x) == x.k = "fin"
IsNaN(x) == x.k = "nan"

\* The sign of a float that is not NaN: -1, 0 or 1.
Sgn(x) ==
    CASE x.k = "pinf" -> 1
      [] x.k = "ninf" -> -1
      [] x.k = "fin" -> IF x.v > 0 THEN 1 ELSE IF x.v < 0 THEN -1 ELSE 0

FNeg(x) ==
    CASE x.k = "fin" -> Fin(-x.v)
      [] x.k = "pinf" -> NInf
      [] x.k = "ninf" -> PInf
      [] x.k = "nan" -> NaN

\* x + y: Inf + (-Inf) is NaN, and NaN propagates.
FAdd(x, y) ==
    CASE IsNaN(x) \/ IsNaN(y) -> NaN
      [] IsFin(x) /\ IsFin(y) -> Fin(x.v + y.v)
      [] IsFin(x) -> y
      [] IsFin(y) -> x
      [] OTHER -> IF x.k = y.k THEN x ELSE NaN

FSub(x, y) == FAdd(x, FNeg(y))

\* x * y: 0 * Inf is NaN, and NaN propagates. The fixed-point product is
\* truncated toward zero.
FMul(x, y) ==
    CASE IsNaN(x) \/ IsNaN(y) -> NaN
      [] IsFin(x) /\ IsFin(y) ->
            LET p == x.v * y.v
            IN  Fin(IF p >= 0 THEN p \div Scale ELSE -((-p) \div Scale))
      [] OTHER ->
            LET s == Sgn(x) * Sgn(y)
            IN  IF s = 0 THEN NaN ELSE IF s > 0 THEN PInf ELSE NInf

\* x / t for a finite t > 0 (the sampling temperature).
FDivPos(x, t) ==
    CASE x.k = "fin" ->
            LET p == x.v * Scale
            IN  Fin(IF p >= 0 THEN p \div t ELSE -((-p) \div t))
      [] OTHER -> x

\* x < y: every comparison with NaN is false.
FLt(x, y) ==
    CASE IsNaN(x) \/ IsNaN(y) -> FALSE
      [] IsFin(x) /\ IsFin(y) -> x.v < y.v
      [] x.k = "ninf" -> y.k # "ninf"
      [] y.k = "pinf" -> x.k # "pinf"
      [] OTHER -> FALSE

FGt(x, y) == FLt(y, x)

FGe(x, y) == ~IsNaN(x) /\ ~IsNaN(y) /\ ~FLt(x, y)

\* torch.max(a, b), elementwise: NaN propagates.
FMax(x, y) ==
    CASE IsNaN(x) \/ IsNaN(y) -> NaN
      [] OTHER -> IF FLt(x, y) THEN y ELSE x

\* torch.clamp(x, lo, hi) = min(max(x, lo), hi): NaN propagates, and with
\* lo > hi every element becomes hi.
FClamp(x, lo, hi) ==
    CASE IsNaN(x) -> NaN
      [] OTHER ->
            LET m == IF FLt(x, lo) THEN lo ELSE x
            IN  IF FGt(m, hi) THEN hi ELSE m

\* (cond).float()
BoolToFloat(b) == IF b THEN Fin(Scale) ELSE Fin(0)

\* e^q for an integer q, in fixed point.
ExpTable(q) ==
    CASE q = -7 -> 1
      [] q = -6 -> 2
      [] q = -5 -> 7
      [] q = -4 -> 18
      [] q = -3 -> 50
      [] q = -2 -> 135
      [] q = -1 -> 368
      [] q = 0 -> 1000
      [] q = 1 -> 2718
      [] q = 2 -> 7389
      [] q = 3 -> 20086
      [] q = 4 -> 54598
      [] q = 5 -> 148413
      [] q = 6 -> 403429

\* e^(x / Scale) * Scale for an integer x: e^floor times the Taylor series
\* of the fractional part. Below the table the result underflows to 0.
ExpI(x) ==
    LET q == x \div Scale
        r == x % Scale
        t2 == (r * r) \div (2 * Scale)
        t3 == (t2 * r) \div (3 * Scale)
        t4 == (t3 * r) \div (4 * Scale)
        t5 == (t4 * r) \div (5 * Scale)
        t6 == (t5 * r) \div (6 * Scale)
        frac == Scale + r + t2 + t3 + t4 + t5 + t6
    IN  IF q < -7 THEN 0 ELSE (ExpTable(q) * frac) \div Scale

\* torch.exp
FExp(x) ==
    CASE x.k = "fin" -> Fin(ExpI(x.v))
      [] x.k = "pinf" -> PInf
      [] x.k = "ninf" -> Fin(0)
      [] x.k = "nan" -> NaN

\* ln(z / Scale) * Scale for Scale <= z: 2 * atanh((z - 1) / (z + 1)).
LnI(z) ==
    LET t == ((z - Scale) * Scale) \div (z + Scale)
        t2 == (t * t) \div Scale
        t3 == (t2 * t) \div Scale
        t5 == (t3 * t2) \div Scale
        t7 == (t5 * t2) \div Scale
        t9 == (t7 * t2) \div Scale
    IN  2 * (t + t3 \div 3 + t5 \div 5 + t7 \div 7 + t9 \div 9)

(***************************************************************************)
(* Tensors                                                                 *)
(***************************************************************************)
RECURSIVE SumInts(_)
SumInts(s) == IF s = <<>> THEN 0 ELSE Head(s) + SumInts(Tail(s))

RECURSIVE MaxInts(_)
MaxInts(s) ==
    IF Len(s) = 1 THEN Head(s)
    ELSE LET m == MaxInts(Tail(s)) IN IF Head(s) > m THEN Head(s) ELSE m

RECURSIVE MinInts(_)
MinInts(s) ==
    IF Len(s) = 1 THEN Head(s)
    ELSE LET m == MinInts(Tail(s)) IN IF Head(s) < m THEN Head(s) ELSE m

\* A (batch, seq) tensor flattened in row-major order.
RECURSIVE Flatten(_)
Flatten(t) == IF t = <<>> THEN <<>> ELSE Head(t) \o Flatten(Tail(t))

\* tensor.sum() of a flattened float tensor, summed in index order from 0.
RECURSIVE FSum(_)
FSum(s) == IF s = <<>> THEN Fin(0) ELSE FAdd(FSum(SubSeq(s, 1, Len(s) - 1)), s[Len(s)])

\* An elementwise operation over one or two sequences of the same length.
RECURSIVE MapSeq(_, _)
MapSeq(Op(_), s) == IF s = <<>> THEN <<>> ELSE <<Op(Head(s))>> \o MapSeq(Op, Tail(s))

RECURSIVE MapSeq2(_, _, _)
MapSeq2(Op(_, _), s, t) ==
    IF s = <<>> THEN <<>> ELSE <<Op(Head(s), Head(t))>> \o MapSeq2(Op, Tail(s), Tail(t))

\* An elementwise operation over one or two (batch, seq) tensors of the same shape.
Map1(Op(_), a) == MapSeq(LAMBDA row : MapSeq(Op, row), a)

Map2(Op(_, _), a, c) == MapSeq2(LAMBDA row, other : MapSeq2(Op, row, other), a, c)

RECURSIVE MapSeq3(_, _, _, _)
MapSeq3(Op(_, _, _), s, t, u) ==
    IF s = <<>> THEN <<>>
    ELSE <<Op(Head(s), Head(t), Head(u))>> \o MapSeq3(Op, Tail(s), Tail(t), Tail(u))

Map3(Op(_, _, _), a, c, d) ==
    MapSeq3(LAMBDA r1, r2, r3 : MapSeq3(Op, r1, r2, r3), a, c, d)

Shape(t) == <<Len(t), IF t = <<>> THEN 0 ELSE Len(t[1])>>

\* The positions of a (batch, seq) tensor.
Positions(t) == {<<b, s>> : b \in DOMAIN t, s \in 1..Shape(t)[2]}

(***************************************************************************)
(* Library reductions over the vocabulary axis, for finite scores          *)
(***************************************************************************)
Vals(row) == MapSeq(LAMBDA x : x.v, row)

\* torch.logsumexp(row, dim=-1): max + ln(sum(exp(x - max))).
LogSumExp(row) ==
    LET x == Vals(row)
        m == MaxInts(x)
        e == MapSeq(LAMBDA xi : ExpI(xi - m), x)
    IN  Fin(m + LnI(SumInts(e)))

\* torch.nn.functional.softmax(row, dim=-1)
Softmax(row) ==
    LET x == Vals(row)
        m == MaxInts(x)
        e == MapSeq(LAMBDA xi : ExpI(xi - m), x)
        z == SumInts(e)
    IN  MapSeq(LAMBDA ei : Fin((ei * Scale) \div z), e)

\* F.log_softmax(row, dim=-1)
LogSoftmax(row) == LET lse == LogSumExp(row) IN MapSeq(LAMBDA x : FSub(x, lse), row)

\* logits / temperature
DivTemperature(logits, temperature) ==
    Map1(LAMBDA row : MapSeq(LAMBDA x : FDivPos(x, temperature.v), row), logits)

(***************************************************************************)
(* selective_log_softmax                                                   *)
(***************************************************************************)
SelectiveLogSoftmax(logits, index, dtype) ==
    IF dtype \in {"float32", "float64"}
    THEN Map2(LAMBDA row, i : FSub(row[i + 1], LogSumExp(row)), logits, index)
    ELSE Map2(LAMBDA row, i : LogSoftmax(row)[i + 1], logits, index)

(***************************************************************************)
(* _masked_sum                                                             *)
(***************************************************************************)
\* An integer mask element promoted to the tensor's float dtype.
IntToFloat(m) == Fin(m * Scale)

\* A boolean mask tensor as the 0/1 tensor the product promotes it to.
BoolMaskToInt(mask) == Map1(LAMBDA m : IF m THEN 1 ELSE 0, mask)

\* (tensor * mask).sum()
MaskedSum(tensor, mask) ==
    FSum(Flatten(Map2(LAMBDA t, m : FMul(t, IntToFloat(m)), tensor, mask)))

(***************************************************************************)
(* highest_entropy_mask                                                    *)
(***************************************************************************)
\* loss_mask.bool()
MaskBool(loss_mask) == Map1(LAMBDA m : m # 0, loss_mask)

\* logsumexp(logits) - sum(softmax(logits) * logits), per position.
EntropyOf(row) ==
    LET pd == Softmax(row)
        prod == MapSeq2(FMul, pd, row)
    IN  FSub(LogSumExp(row), FSum(prod))

Entropy(logits) == Map1(EntropyOf, logits)

\* entropy[loss_mask.bool()]: the selected elements, in row-major order.
RECURSIVE SelectWhere(_, _)
SelectWhere(vals, keep) ==
    IF vals = <<>> THEN <<>>
    ELSE (IF Head(keep) THEN <<Head(vals)>> ELSE <<>>) \o SelectWhere(Tail(vals), Tail(keep))

ValidEntropy(entropy, loss_mask) == SelectWhere(Flatten(entropy), Flatten(MaskBool(loss_mask)))

\* int(x) of a non-negative float: truncation toward zero.
IntOf(x) == x.v \div Scale

SelectionSizeUnclamped(percent, numel) == IntOf(FMul(percent, IntToFloat(numel)))

\* k = int(percent * valid_entropy.numel()); if k < 1: k = 1
SelectionSize(percent, numel) ==
    LET k == IntOf(FMul(percent, IntToFloat(numel)))
    IN  IF k < 1 THEN 1 ELSE k

\* torch.kthvalue(v, j) raises when j is outside 1..numel.
KthValueRaises(v, j) == j < 1 \/ j > Len(v)

\* torch.kthvalue(v, j).values: the j-th smallest element.
KthValue(v, j) ==
    CHOOSE x \in {v[i] : i \in DOMAIN v} :
        /\ Cardinality({i \in DOMAIN v : FLt(v[i], x)}) < j
        /\ Cardinality({i \in DOMAIN v : ~FGt(v[i], x)}) >= j

\* valid_entropy.min() raises on a tensor with no element.
MinValueRaises(v) == Len(v) = 0

\* valid_entropy.min()
MinValue(v) == Fin(MinInts(Vals(v)))

ThresholdMaskUnmasked(entropy, threshold, loss_mask) ==
    Map2(LAMBDA e, m : FGe(e, threshold), entropy, MaskBool(loss_mask))

ThresholdMaskStrict(entropy, threshold, loss_mask) ==
    Map2(LAMBDA e, m : FGt(e, threshold) /\ m, entropy, MaskBool(loss_mask))

\* mask = (entropy >= threshold) & (loss_mask.bool())
ThresholdMask(entropy, threshold, loss_mask) ==
    Map2(LAMBDA e, m : FGe(e, threshold) /\ m, entropy, MaskBool(loss_mask))

\* The threshold and the mask, from the entropies of the valid positions.
SelectTop(entropy, valid_entropy, loss_mask, percent) ==
    LET numel == Len(valid_entropy)
        k == SelectionSize(percent, numel)
        locals == [entropy |-> entropy, valid_entropy |-> valid_entropy, k |-> k]
    IN  IF k = numel
        THEN IF MinValueRaises(valid_entropy)
             THEN [status |-> "RuntimeError", locals |-> locals, mask |-> <<>>]
             ELSE [status |-> "ok", locals |-> locals,
                   mask |-> ThresholdMask(entropy, FSub(MinValue(valid_entropy), Fin(Scale)),
                                          loss_mask)]
        ELSE IF KthValueRaises(valid_entropy, numel - k + 1)
        THEN [status |-> "RuntimeError", locals |-> locals, mask |-> <<>>]
        ELSE [status |-> "ok", locals |-> locals,
              mask |-> ThresholdMask(entropy, KthValue(valid_entropy, numel - k + 1), loss_mask)]

MaskFromEntropy(entropy, loss_mask, percent) ==
    SelectTop(entropy, ValidEntropy(entropy, loss_mask), loss_mask, percent)

HighestEntropyMask(logits, loss_mask, percent) ==
    MaskFromEntropy(Entropy(logits), loss_mask, percent)

(***************************************************************************)
(* shift_logits                                                            *)
(***************************************************************************)
\* torch.zeros(B, 1, V)
Zeros(B, V) == [b \in 1..B |-> <<[i \in 1..V |-> Fin(0)]>>]

DropFirst(logits) == [b \in DOMAIN logits |-> SubSeq(logits[b], 2, Len(logits[b]))]

\* logits[:, :-1, :]
DropLast(logits) == [b \in DOMAIN logits |-> SubSeq(logits[b], 1, Len(logits[b]) - 1)]

\* torch.cat([x, y], dim=1)
CatSeq(x, y) == [b \in DOMAIN x |-> x[b] \o y[b]]

\* B, _, V = logits.shape
ShapeBV(logits) == <<Len(logits), Len(logits[1][1])>>

ShiftLogits(logits) ==
    LET B == ShapeBV(logits)[1]
        V == ShapeBV(logits)[2]
    IN  CatSeq(Zeros(B, V), DropLast(logits))

(***************************************************************************)
(* grpo_loss_clip, grpo_loss_ratio and grpo_loss                           *)
(*                                                                         *)
(* The elementwise part of an engine is one operator over the elements at  *)
(* a position; the reductions are an operator over the tensors of locals.  *)
(***************************************************************************)
One == Fin(Scale)

\* coef_1 = torch.clamp(torch.exp(per_token_logps - original_logprobs), 0, clip_ratio)
Coef1(logp, ref, clip_ratio) == FClamp(FExp(FSub(logp, ref)), Fin(0), clip_ratio)

\* coef_2 = torch.clamp(coef_1, 1 - epsilon_low, 1 + epsilon_high)
Coef2(coef_1, epsilon_low, epsilon_high) ==
    FClamp(coef_1, FSub(One, epsilon_low), FAdd(One, epsilon_high))

IsClippedClipOrEqual(per_token_loss1, per_token_loss2) ==
    BoolToFloat(~FGt(per_token_loss1, per_token_loss2))

\* is_clipped = (per_token_loss1 < per_token_loss2).float()
IsClippedClip(per_token_loss1, per_token_loss2) ==
    BoolToFloat(FLt(per_token_loss1, per_token_loss2))

ClipToken(logp, ref, adv, epsilon_low, epsilon_high, clip_ratio) ==
    LET coef_1 == Coef1(logp, ref, clip_ratio)
        coef_2 == Coef2(coef_1, epsilon_low, epsilon_high)
        per_token_loss1 == FMul(FNeg(coef_1), adv)
        per_token_loss2 == FMul(FNeg(coef_2), adv)
    IN  [coef_1 |-> coef_1, coef_2 |-> coef_2,
         per_token_loss1 |-> per_token_loss1, per_token_loss2 |-> per_token_loss2,
         per_token_loss |-> FMax(per_token_loss1, per_token_loss2),
         is_clipped |-> IsClippedClip(per_token_loss1, per_token_loss2)]

\* raw_ratio = torch.exp(per_token_logps - original_logprobs)
RawRatio(logp, ref) == FExp(FSub(logp, ref))

IsClippedRatioAfterClamp(raw_ratio, clip_ratio) ==
    BoolToFloat(FGt(FClamp(raw_ratio, Fin(0), clip_ratio), clip_ratio))

\* is_clipped = (raw_ratio > clip_ratio).float()
IsClippedRatio(raw_ratio, clip_ratio) == BoolToFloat(FGt(raw_ratio, clip_ratio))

\* ratio = torch.clamp(raw_ratio, 0, clip_ratio)
ClampedRatio(raw_ratio, clip_ratio) == FClamp(raw_ratio, Fin(0), clip_ratio)

RatioToken(logp, ref, adv, clip_ratio) ==
    LET raw_ratio == RawRatio(logp, ref)
        ratio == ClampedRatio(raw_ratio, clip_ratio)
    IN  [raw_ratio |-> raw_ratio, is_clipped |-> IsClippedRatio(raw_ratio, clip_ratio),
         ratio |-> ratio, loss |-> FMul(FNeg(ratio), adv)]

\* The result of an engine: the returned triple, its local tensors and the
\* functions entered on the way.
Returned(loss, ratio, count, locals, entered) ==
    [status |-> "ok", loss |-> loss, ratio |-> ratio, clipped_token_count |-> count,
     frame |-> locals, calls |-> entered]

Raised(error, locals, entered) ==
    [status |-> error, loss |-> NaN, ratio |-> NaN, clipped_token_count |-> NaN,
     frame |-> locals, calls |-> entered]

\* if highest_entropy_percentage < 1.0:
\*     loss_mask = highest_entropy_mask(shifted_logits, loss_mask, highest_entropy_percentage)
NarrowOf(h) ==
    [status |-> h.status,
     mask |-> IF h.status = "ok" THEN BoolMaskToInt(h.mask) ELSE <<>>,
     calls |-> <<"highest_entropy_mask">>]

NarrowedMask(shifted_logits, loss_mask, highest_entropy_percentage) ==
    IF FLt(highest_entropy_percentage, One)
    THEN NarrowOf(HighestEntropyMask(shifted_logits, loss_mask, highest_entropy_percentage))
    ELSE [status |-> "ok", mask |-> loss_mask, calls |-> <<>>]

\* A local of every position, as a (batch, seq) tensor.
Local(tok, name) == Map1(LAMBDA t : t[name], tok)

ClipLocals(tok, mask) ==
    [coef_1 |-> Local(tok, "coef_1"), coef_2 |-> Local(tok, "coef_2"),
     per_token_loss1 |-> Local(tok, "per_token_loss1"),
     per_token_loss2 |-> Local(tok, "per_token_loss2"),
     per_token_loss |-> Local(tok, "per_token_loss"),
     is_clipped |-> Local(tok, "is_clipped"), loss_mask |-> mask]

ClipReduceNarrowFirst(loss_mask, tok, narrowed) ==
    IF narrowed.status # "ok"
    THEN Raised(narrowed.status, ClipLocals(tok, narrowed.mask),
                <<"grpo_loss_clip", "selective_log_softmax">> \o narrowed.calls)
    ELSE Returned(MaskedSum(Local(tok, "per_token_loss"), narrowed.mask),
                  MaskedSum(Local(tok, "coef_2"), narrowed.mask),
                  MaskedSum(Local(tok, "is_clipped"), narrowed.mask),
                  ClipLocals(tok, narrowed.mask),
                  <<"grpo_loss_clip", "selective_log_softmax">>
                      \o narrowed.calls \o <<"_masked_sum", "_masked_sum", "_masked_sum">>)

\* clipped_token_count, then the narrowing, then loss and ratio.
ClipReduce(loss_mask, tok, narrowed) ==
    IF narrowed.status # "ok"
    THEN Raised(narrowed.status, ClipLocals(tok, narrowed.mask),
                <<"grpo_loss_clip", "selective_log_softmax", "_masked_sum">> \o narrowed.calls)
    ELSE Returned(MaskedSum(Local(tok, "per_token_loss"), narrowed.mask),
                  MaskedSum(Local(tok, "coef_2"), narrowed.mask),
                  MaskedSum(Local(tok, "is_clipped"), loss_mask),
                  ClipLocals(tok, narrowed.mask),
                  <<"grpo_loss_clip", "selective_log_softmax", "_masked_sum">>
                      \o narrowed.calls \o <<"_masked_sum", "_masked_sum">>)

ClipScaled(a, shifted_logits, epsilon_low, epsilon_high, clip_ratio, highest_entropy_percentage) ==
    ClipReduce(a.loss_mask,
               Map3(LAMBDA lp, ref, adv :
                        ClipToken(lp, ref, adv, epsilon_low, epsilon_high, clip_ratio),
                    SelectiveLogSoftmax(shifted_logits, a.input_ids, a.dtype),
                    a.original_logprobs, a.advantages),
               NarrowedMask(shifted_logits, a.loss_mask, highest_entropy_percentage))

GrpoLossClip(a, epsilon_low, epsilon_high, clip_ratio, highest_entropy_percentage) ==
    ClipScaled(a, DivTemperature(a.shifted_logits, a.temperature),
               epsilon_low, epsilon_high, clip_ratio, highest_entropy_percentage)

RatioLocals(tok, mask) ==
    [raw_ratio |-> Local(tok, "raw_ratio"), is_clipped |-> Local(tok, "is_clipped"),
     ratio |-> Local(tok, "ratio"), loss |-> Local(tok, "loss"), loss_mask |-> mask]

RatioReduce(loss_mask, tok, narrowed) ==
    IF narrowed.status # "ok"
    THEN Raised(narrowed.status, RatioLocals(tok, narrowed.mask),
                <<"grpo_loss_ratio", "selective_log_softmax", "_masked_sum">> \o narrowed.calls)
    ELSE Returned(MaskedSum(Local(tok, "loss"), narrowed.mask),
                  MaskedSum(Local(tok, "ratio"), narrowed.mask),
                  MaskedSum(Local(tok, "is_clipped"), loss_mask),
                  RatioLocals(tok, narrowed.mask),
                  <<"grpo_loss_ratio", "selective_log_softmax", "_masked_sum">>
                      \o narrowed.calls \o <<"_masked_sum", "_masked_sum">>)

RatioScaled(a, shifted_logits, clip_ratio, highest_entropy_percentage) ==
    RatioReduce(a.loss_mask,
                Map3(LAMBDA lp, ref, adv : RatioToken(lp, ref, adv, clip_ratio),
                     SelectiveLogSoftmax(shifted_logits, a.input_ids, a.dtype),
                     a.original_logprobs, a.advantages),
                NarrowedMask(shifted_logits, a.loss_mask, highest_entropy_percentage))

GrpoLossRatio(a, clip_ratio, highest_entropy_percentage) ==
    RatioScaled(a, DivTemperature(a.shifted_logits, a.temperature),
                clip_ratio, highest_entropy_percentage)

GrpoLossClipAsRatio(a) ==
    IF a.grpo_loss_config.type \in {"clip", "ratio"}
    THEN GrpoLossRatio(a, a.grpo_loss_config.clip_ratio,
                       a.grpo_loss_config.highest_entropy_ratio_loss)
    ELSE Raised("ValueError", <<>>, <<>>)

\* isinstance(grpo_loss_config, ClippingConfig) / isinstance(..., RatioConfig):
\* a configuration object carries the tag of its class in its type field.
GrpoLoss(a) ==
    IF a.grpo_loss_config.type = "clip"
    THEN GrpoLossClip(a, a.grpo_loss_config.epsilon_low, a.grpo_loss_config.epsilon_high,
                      a.grpo_loss_config.clip_ratio,
                      a.grpo_loss_config.highest_entropy_ratio_loss)
    ELSE IF a.grpo_loss_config.type = "ratio"
    THEN GrpoLossRatio(a, a.grpo_loss_config.clip_ratio,
                       a.grpo_loss_config.highest_entropy_ratio_loss)
    ELSE Raised("ValueError", <<>>, <<>>)

(***************************************************************************)
(* Inputs                                                                  *)
(***************************************************************************)
MaxTokens == 3
MaxLossTokens == 2
MaxBatch == 2
MaxSeq == 3

None == <<>>

\* The (batch, seq) shapes with at most n positions.
Shapes(n) == {sh \in (1..n) \X (1..n) : sh[1] * sh[2] <= n}

\* Scores over a vocabulary of two, with three distinct entropies.
ScoreRows == {<<Fin(0), Fin(0)>>, <<Fin(0), Fin(Scale)>>, <<Fin(0), Fin(2 * Scale)>>}

Percentages == {Fin(250), Fin(500), Fin(900), Fin(Scale)}

SelectorTokens == [logits : ScoreRows, mask : {0, 1}]

SelectorArgsOf(g, p) ==
    [logits |-> Map1(LAMBDA t : t.logits, g),
     loss_mask |-> Map1(LAMBDA t : t.mask, g),
     percent |-> p]

\* Non-zero scores, so that a shifted position shows where it came from.
ShiftRows == {<<Fin(Scale), Fin(-Scale)>>, <<Fin(2 * Scale), Fin(3 * Scale)>>}

\* The scores of a position with the token observed there and the
\* log-probability recorded for it at sampling time: a uniform row, and a
\* peaked row with its unlikely token and with its likely token, the latter
\* also with a low recorded log-probability.
Observations ==
    {[logits |-> <<Fin(0), Fin(0)>>, id |-> 0, ref |-> Fin(-690)],
     [logits |-> <<Fin(0), Fin(2 * Scale)>>, id |-> 0, ref |-> Fin(-690)],
     [logits |-> <<Fin(0), Fin(2 * Scale)>>, id |-> 1, ref |-> Fin(-690)],
     [logits |-> <<Fin(0), Fin(2 * Scale)>>, id |-> 1, ref |-> Fin(-2126)]}

LossTokens == [obs : Observations, adv : {Fin(-Scale), Fin(Scale)}, mask : {0, 1}]

Temperatures == {Fin(Scale), Fin(2 * Scale)}

ClippingConfig(p) ==
    [type |-> "clip", epsilon_low |-> Fin(200), epsilon_high |-> Fin(200),
     clip_ratio |-> Fin(5 * Scale), highest_entropy_ratio_loss |-> p]

RatioConfig(p) ==
    [type |-> "ratio", clip_ratio |-> Fin(5 * Scale), highest_entropy_ratio_loss |-> p]

\* A configuration object of neither class.
OtherConfig == [type |-> "other"]

LossPercentages == {Fin(500), Fin(Scale)}

EngineConfigs ==
    {ClippingConfig(p) : p \in LossPercentages} \cup {RatioConfig(p) : p \in LossPercentages}

Configs == EngineConfigs \cup {OtherConfig}

LossArgsOf(g, c, temperature) ==
    [shifted_logits |-> Map1(LAMBDA t : t.obs.logits, g),
     input_ids |-> Map1(LAMBDA t : t.obs.id, g),
     advantages |-> Map1(LAMBDA t : t.adv, g),
     original_logprobs |-> Map1(LAMBDA t : t.obs.ref, g),
     loss_mask |-> Map1(LAMBDA t : t.mask, g),
     temperature |-> temperature,
     dtype |-> "float32",
     grpo_loss_config |-> c]

(***************************************************************************)
(* The calls                                                               *)
(***************************************************************************)
Init ==
    /\ \/ /\ fn = "grpo_loss"
          /\ \E sh \in Shapes(MaxLossTokens) :
                \E g \in [1..sh[1] -> [1..sh[2] -> LossTokens]], c \in Configs,
                   temperature \in Temperatures :
                    args = LossArgsOf(g, c, temperature)
       \/ /\ fn = "highest_entropy_mask"
          /\ \E sh \in Shapes(MaxTokens) :
                \E g \in [1..sh[1] -> [1..sh[2] -> SelectorTokens]], p \in Percentages :
                    args = SelectorArgsOf(g, p)
       \/ /\ fn = "shift_logits"
          /\ \E B \in 1..MaxBatch, L \in 1..MaxSeq :
                \E g \in [1..B -> [1..L -> ShiftRows]] :
                    args = [logits |-> g]
    /\ pc = "call"
    /\ ret = None
    /\ frame = None
    /\ calls = <<>>
    /\ args2 = None
    /\ ret2 = None

\* What the caller of an engine sees.
Outcome(r) ==
    [status |-> r.status, loss |-> r.loss, ratio |-> r.ratio,
     clipped_token_count |-> r.clipped_token_count]

CallGrpoLoss ==
    /\ pc = "call"
    /\ fn = "grpo_loss"
    /\ args2 = None
    /\ \E r \in {GrpoLoss(args)} :
           /\ pc' = IF r.status = "ok" THEN "done" ELSE "raised"
           /\ ret' = Outcome(r)
           /\ frame' = r.frame
           /\ calls' = <<"grpo_loss">> \o r.calls
    /\ UNCHANGED <<fn, args, args2, ret2>>

CallHighestEntropyMask ==
    /\ pc = "call"
    /\ fn = "highest_entropy_mask"
    /\ \E r \in {HighestEntropyMask(args.logits, args.loss_mask, args.percent)} :
           /\ pc' = IF r.status = "ok" THEN "done" ELSE "raised"
           /\ ret' = [status |-> r.status, mask |-> r.mask]
           /\ frame' = r.locals
    /\ calls' = <<"highest_entropy_mask">>
    /\ UNCHANGED <<fn, args, args2, ret2>>

CallShiftLogits ==
    /\ pc = "call"
    /\ fn = "shift_logits"
    /\ pc' = "done"
    /\ ret' = ShiftLogits(args.logits)
    /\ calls' = <<"shift_logits">>
    /\ UNCHANGED <<fn, args, frame, args2, ret2>>

Next == CallGrpoLoss \/ CallHighestEntropyMask \/ CallShiftLogits

Spec == Init /\ [][Next]_vars

(***************************************************************************)
(* Pairs of calls whose inputs differ only where the loss mask is 0, and   *)
(* direct calls of _masked_sum                                             *)
(***************************************************************************)
\* What a position holds besides its mask bit; an advantage may be NaN.
TwinContents == [obs : {o \in Observations : o.ref = Fin(-690)}, adv : {Fin(Scale), NaN}]

\* A position of the first call with the same position of the second: equal
\* where the mask is 1, any two contents where it is 0.
TwinTokens ==
    {[mask |-> 1, one |-> c, two |-> c] : c \in TwinContents}
        \cup {[mask |-> 0, one |-> c, two |-> d] : c \in TwinContents, d \in TwinContents}

\* The dtypes of the two branches of selective_log_softmax.
Dtypes == {"float32", "bfloat16"}

TwinArgsOf(g, c, which, dtype) ==
    [shifted_logits |-> Map1(LAMBDA t : t[which].obs.logits, g),
     input_ids |-> Map1(LAMBDA t : t[which].obs.id, g),
     advantages |-> Map1(LAMBDA t : t[which].adv, g),
     original_logprobs |-> Map1(LAMBDA t : t[which].obs.ref, g),
     loss_mask |-> Map1(LAMBDA t : t.mask, g),
     temperature |-> Fin(Scale),
     dtype |-> dtype,
     grpo_loss_config |-> c]

Elements == {Fin(-Scale), Fin(0), Fin(Scale), NaN, PInf}

InitTwin ==
    /\ \/ /\ fn = "grpo_loss"
          /\ \E sh \in Shapes(MaxLossTokens) :
                \E g \in [1..sh[1] -> [1..sh[2] -> TwinTokens]], c \in EngineConfigs,
                   dtype \in Dtypes :
                    /\ args = TwinArgsOf(g, c, "one", dtype)
                    /\ args2 = TwinArgsOf(g, c, "two", dtype)
       \/ /\ fn = "_masked_sum"
          /\ \E sh \in Shapes(MaxLossTokens) :
                \E g \in [1..sh[1] -> [1..sh[2] -> [element : Elements, mask : {0, 1}]]] :
                    args = [tensor |-> Map1(LAMBDA t : t.element, g),
                            mask |-> Map1(LAMBDA t : t.mask, g)]
          /\ args2 = None
    /\ pc = "call"
    /\ ret = None
    /\ frame = None
    /\ calls = <<>>
    /\ ret2 = None

CallGrpoLossTwice ==
    /\ pc = "call"
    /\ fn = "grpo_loss"
    /\ args2 # None
    /\ \E r \in {GrpoLoss(args)} :
           /\ pc' = IF r.status = "ok" THEN "done" ELSE "raised"
           /\ ret' = Outcome(r)
           /\ frame' = r.frame
           /\ calls' = <<"grpo_loss">> \o r.calls
    /\ ret2' = Outcome(GrpoLoss(args2))
    /\ UNCHANGED <<fn, args, args2>>

CallMaskedSum ==
    /\ pc = "call"
    /\ fn = "_masked_sum"
    /\ pc' = "done"
    /\ ret' = MaskedSum(args.tensor, args.mask)
    /\ calls' = <<"_masked_sum">>
    /\ UNCHANGED <<fn, args, frame, args2, ret2>>

NextTwin == CallGrpoLossTwice \/ CallMaskedSum

SpecTwin == InitTwin /\ [][NextTwin]_vars

(***************************************************************************)
(* Properties                                                              *)
(***************************************************************************)
At(t, pos) == t[pos[1]][pos[2]]

Returns == pc = "done"

Called == pc # "call"

\* The positions the caller's loss mask marks valid.
ValidPositions == {pos \in Positions(args.loss_mask) : At(args.loss_mask, pos) = 1}

IsSelectorCall == fn = "highest_entropy_mask"

\* The positions true in the mask the selector returned.
Selected == {pos \in Positions(ret.mask) : At(ret.mask, pos)}

\* Every row of t has the length of the matching row of u.
SameShape(t, u) == Len(t) = Len(u) /\ \A b \in DOMAIN t : Len(t[b]) = Len(u[b])

Max2(x, y) == IF x >= y THEN x ELSE y

\* round(p * n) for a fixed-point p: to the nearest integer, halves to even.
RoundTimes(p, n) ==
    LET x == p * n
        q == x \div Scale
        r == x % Scale
    IN  IF 2 * r > Scale \/ (2 * r = Scale /\ q % 2 = 1) THEN q + 1 ELSE q

\* floor(p * n) for a fixed-point p.
FloorTimes(p, n) == (p * n) \div Scale

InOpenUnit(p) == 0 < p.v /\ p.v < Scale

\* C1 as stated: with N >= 1 valid positions and p in (0,1), the selector
\* returns a mask with at least max(1, round(p*N)) true positions.
C1_CountAtLeastRounded ==
    (IsSelectorCall /\ Called /\ Cardinality(ValidPositions) >= 1 /\ InOpenUnit(args.percent))
        => /\ Returns
           /\ Cardinality(Selected)
                >= Max2(1, RoundTimes(args.percent.v, Cardinality(ValidPositions)))

\* C1 as amended: with N >= 1 valid positions and p in (0,1), the selector
\* returns a mask with at least max(1, floor(p*N)) true positions: the
\* product is truncated, not rounded.
C1_CountAtLeastTruncated ==
    (IsSelectorCall /\ Called /\ Cardinality(ValidPositions) >= 1 /\ InOpenUnit(args.percent))
        => /\ Returns
           /\ Cardinality(Selected)
                >= Max2(1, FloorTimes(args.percent.v, Cardinality(ValidPositions)))

\* A call whose selection is exactly the truncated size, below the rounded one.
C1_Witness ==
    /\ IsSelectorCall /\ Returns /\ InOpenUnit(args.percent)
    /\ Cardinality(ValidPositions) >= 2
    /\ Cardinality(Selected) = Max2(1, FloorTimes(args.percent.v, Cardinality(ValidPositions)))
    /\ Cardinality(Selected) < RoundTimes(args.percent.v, Cardinality(ValidPositions))

IsEngineCall == fn = "grpo_loss" /\ args.grpo_loss_config.type \in {"clip", "ratio"}

Percentage == args.grpo_loss_config.highest_entropy_ratio_loss

\* C2: with no valid position the selector returns an all-false mask and
\* raises nothing, and so both engines, with an all-zero mask and an entropy
\* percentage < 1.0, return zero outputs instead of raising.
C2_EmptyMaskIsNoError ==
    /\ (IsSelectorCall /\ Called /\ ValidPositions = {})
            => (Returns /\ SameShape(ret.mask, args.loss_mask) /\ Selected = {})
    /\ (IsEngineCall /\ Called /\ ValidPositions = {} /\ FLt(Percentage, One))
            => /\ Returns
               /\ ret.loss = Fin(0) /\ ret.ratio = Fin(0) /\ ret.clipped_token_count = Fin(0)

\* C3: the mask the selector returns has the shape of the loss mask, and a
\* position masked out in the loss mask is false in it whatever its entropy.
C3_SelectedSubsetOfValid ==
    (IsSelectorCall /\ Returns)
        => /\ SameShape(ret.mask, args.loss_mask)
           /\ Selected \subseteq ValidPositions

\* A masked-out position whose entropy is at least that of every selected
\* position, and which is not selected.
C3_Witness ==
    /\ IsSelectorCall /\ Returns /\ Selected # {}
    /\ \E pos \in Positions(args.loss_mask) \ ValidPositions :
            /\ pos \notin Selected
            /\ \A q \in Selected : FGe(At(frame.entropy, pos), At(frame.entropy, q))

\* The k-th largest of the entropies at the positions S.
KthLargest(S, k) ==
    CHOOSE x \in {At(frame.entropy, pos) : pos \in S} :
        /\ Cardinality({pos \in S : FGt(At(frame.entropy, pos), x)}) < k
        /\ Cardinality({pos \in S : FGe(At(frame.entropy, pos), x)}) >= k

\* C10: with N >= 1 valid positions and selection size k, the selected set is
\* the valid positions whose entropy is >= the k-th largest entropy among the
\* valid ones: no unselected valid position has more entropy than a selected
\* one, ties at the threshold are all selected, and k = N selects all.
C10_SelectsTopKWithTies ==
    (IsSelectorCall /\ Returns /\ ValidPositions # {})
        => /\ frame.k \in 1..Cardinality(ValidPositions)
           /\ Selected = {pos \in ValidPositions :
                            FGe(At(frame.entropy, pos), KthLargest(ValidPositions, frame.k))}
           /\ \A sel \in Selected, pos \in ValidPositions \ Selected :
                    FGt(At(frame.entropy, sel), At(frame.entropy, pos))
           /\ Cardinality(Selected) >= frame.k
           /\ (frame.k = Cardinality(ValidPositions) => Selected = ValidPositions)

\* A tie at the threshold: more positions selected than k, and not all.
C10_Witness ==
    /\ IsSelectorCall /\ Returns
    /\ Cardinality(Selected) > frame.k
    /\ Selected # ValidPositions

IsLossCall == fn = "grpo_loss" /\ args2 = None

ConfigType == args.grpo_loss_config.type

Entered(name) == \E i \in DOMAIN calls : calls[i] = name

\* C5: a clip configuration is routed to grpo_loss_clip only, a ratio
\* configuration to grpo_loss_ratio only, and any other configuration raises
\* a ValueError with neither engine entered and no tensor computed.
C5_DispatchByConfigType ==
    (IsLossCall /\ Called)
        => /\ ConfigType = "clip"
                => (Entered("grpo_loss_clip") /\ ~Entered("grpo_loss_ratio"))
           /\ ConfigType = "ratio"
                => (Entered("grpo_loss_ratio") /\ ~Entered("grpo_loss_clip"))
           /\ ConfigType \notin {"clip", "ratio"}
                => /\ pc = "raised" /\ ret.status = "ValueError"
                   /\ calls = <<"grpo_loss">> /\ frame = <<>>

\* A call with a configuration of neither class, after it raised.
C5_Witness == IsLossCall /\ ConfigType = "other" /\ pc = "raised" /\ ret.status = "ValueError"

IsShiftCall == fn = "shift_logits"

ZeroRow(n) == [i \in 1..n |-> Fin(0)]

\* C6: shift_logits returns a tensor of the shape of its input whose
\* position 0 is zero in every row and whose position i > 0 is the input's
\* position i-1; the input's last position is nowhere in the output.
C6_ShiftByOne ==
    (IsShiftCall /\ Returns)
        => /\ SameShape(ret, args.logits)
           /\ \A b \in DOMAIN ret :
                /\ ret[b][1] = ZeroRow(Len(args.logits[b][1]))
                /\ \A i \in 2..Len(ret[b]) : ret[b][i] = args.logits[b][i - 1]
                /\ (\A i \in 1..(Len(ret[b]) - 1) :
                        args.logits[b][i] # args.logits[b][Len(ret[b])])
                     => \A i \in DOMAIN ret[b] : ret[b][i] # args.logits[b][Len(ret[b])]

\* Two rows of three positions whose last scores occur nowhere before.
C6_Witness ==
    /\ IsShiftCall /\ Returns
    /\ Len(ret) = 2 /\ Len(ret[1]) = 3
    /\ args.logits[1][3] # args.logits[1][2] /\ args.logits[1][3] # args.logits[1][1]
    /\ args.logits[1] # args.logits[2]

\* The mask the engines reduce loss and ratio over.
FinalMask ==
    IF FLt(Percentage, One)
    THEN BoolMaskToInt(HighestEntropyMask(DivTemperature(args.shifted_logits, args.temperature),
                                          args.loss_mask, Percentage).mask)
    ELSE args.loss_mask

\* The per-token loss and the per-token ratio of the engine called.
PerTokenLoss == IF ConfigType = "clip" THEN frame.per_token_loss ELSE frame.loss

PerTokenRatio == IF ConfigType = "clip" THEN frame.coef_2 ELSE frame.ratio

\* The number of positions of S where the clip indicator is 1.
ClippedIn(S) == Cardinality({pos \in S : At(frame.is_clipped, pos) = One})

\* Loss and ratio are masked sums over the mask final.
ReducedOver(final) ==
    /\ frame.loss_mask = final
    /\ ret.loss = MaskedSum(PerTokenLoss, final)
    /\ ret.ratio = MaskedSum(PerTokenRatio, final)
    /\ ~FLt(Percentage, One) => final = args.loss_mask

\* C4: the clipped-token count is the sum of the clip indicator over the
\* caller's loss mask, also when the entropy percentage is < 1.0; loss and
\* ratio are masked sums over the final mask: the narrowed mask when the
\* percentage is < 1.0, and the caller's mask, with the selector not entered,
\* when it is >= 1.0.
C4_CountBeforeNarrowing ==
    (IsEngineCall /\ args2 = None /\ Returns)
        => /\ ret.clipped_token_count = Fin(Scale * ClippedIn(ValidPositions))
           /\ ReducedOver(FinalMask)
           /\ Entered("highest_entropy_mask") <=> FLt(Percentage, One)

\* A clipped valid position that the narrowing drops: the count over the
\* caller's mask exceeds the count over the final mask.
C4_Witness ==
    /\ IsEngineCall /\ args2 = None /\ Returns /\ FLt(Percentage, One)
    /\ \E pos \in ValidPositions :
            At(frame.is_clipped, pos) = One /\ At(frame.loss_mask, pos) = 0

\* The scores of a position, divided by the temperature.
ScaledRow(pos) ==
    MapSeq(LAMBDA x : FDivPos(x, args.temperature.v), At(args.shifted_logits, pos))

\* The log-probability of the observed token at a position: its scaled score
\* minus the log of the sum of the exponentials of the position's scores.
LogpIn(row, id) == FSub(row[id + 1], LogSumExp(row))

Logp(pos) == LogpIn(ScaledRow(pos), At(args.input_ids, pos))

\* exp(logp - ref_logp) at a position, as a fixed-point integer.
R(pos) == ExpI(Logp(pos).v - At(args.original_logprobs, pos).v)

ClipRatio == args.grpo_loss_config.clip_ratio.v

Adv(pos) == At(args.advantages, pos)

Clamped(x, lo, hi) == IF x < lo THEN lo ELSE IF x > hi THEN hi ELSE x

\* What the ratio policy computes at a position whose unclamped ratio is r.
RatioPolicyAt(pos, r) ==
    /\ At(frame.raw_ratio, pos) = Fin(r)
    /\ At(frame.is_clipped, pos) = (IF r > ClipRatio THEN One ELSE Fin(0))
    /\ At(frame.ratio, pos) = Fin(Clamped(r, 0, ClipRatio))
    /\ At(frame.loss, pos) = FNeg(FMul(At(frame.ratio, pos), Adv(pos)))
    /\ r > ClipRatio
        => /\ At(frame.is_clipped, pos) = One
           /\ At(frame.ratio, pos) = Fin(ClipRatio)
           /\ At(frame.loss, pos) = FNeg(FMul(Fin(ClipRatio), Adv(pos)))

\* C8: in grpo_loss_ratio the clip indicator of a token is 1 exactly when the
\* unclamped r = exp(logp - ref_logp) exceeds clip_ratio, its ratio is r
\* clamped to [0, clip_ratio] and its loss is minus that ratio times the
\* advantage; a token with r > clip_ratio has indicator 1, ratio clip_ratio
\* and loss -clip_ratio * advantage.
C8_RatioPolicyPerToken ==
    (IsLossCall /\ ConfigType = "ratio" /\ Called)
        => \A pos \in Positions(args.loss_mask) : RatioPolicyAt(pos, R(pos))

\* A token of the ratio policy with r above clip_ratio, beside one below it.
C8_Witness ==
    /\ IsLossCall /\ ConfigType = "ratio" /\ Returns
    /\ \E pos, other \in Positions(args.loss_mask) :
            R(pos) > ClipRatio /\ R(other) < ClipRatio

Lo == Scale - args.grpo_loss_config.epsilon_low.v

Hi == Scale + args.grpo_loss_config.epsilon_high.v

\* The two candidate losses of a token, from its two coefficients.
ClipLossesAt(pos, c1, c2, l1, l2) ==
    /\ At(frame.coef_1, pos) = Fin(c1)
    /\ At(frame.coef_2, pos) = Fin(c2)
    /\ At(frame.per_token_loss, pos) = (IF l1.v >= l2.v THEN l1 ELSE l2)
    /\ At(frame.is_clipped, pos) = (IF l1.v < l2.v THEN One ELSE Fin(0))
    /\ (Lo <= c1 /\ c1 <= Hi)
        => /\ At(frame.coef_2, pos) = At(frame.coef_1, pos)
           /\ At(frame.per_token_loss, pos) = l1
           /\ At(frame.is_clipped, pos) = Fin(0)

ClipCoefficientsAt(pos, c1, c2) ==
    ClipLossesAt(pos, c1, c2, FNeg(FMul(Fin(c1), Adv(pos))), FNeg(FMul(Fin(c2), Adv(pos))))

ClipPolicyAt(pos, c1) == ClipCoefficientsAt(pos, c1, Clamped(c1, Lo, Hi))

\* C9: in grpo_loss_clip, coef_1 = clamp(r, 0, clip_ratio), coef_2 =
\* clamp(coef_1, 1 - epsilon_low, 1 + epsilon_high), the per-token loss is
\* max(-coef_1 * advantage, -coef_2 * advantage) and the clip indicator is 1
\* exactly when -coef_1 * advantage < -coef_2 * advantage; when coef_1 is in
\* [1 - epsilon_low, 1 + epsilon_high], coef_2 = coef_1, the loss is
\* -coef_1 * advantage and the indicator is 0.
C9_ClipPolicyPerToken ==
    (IsLossCall /\ ConfigType = "clip" /\ Called)
        => \A pos \in Positions(args.loss_mask) :
                ClipPolicyAt(pos, Clamped(R(pos), 0, ClipRatio))

\* A token of the clip policy with ratio 1 (logp = ref_logp), beside a
\* token whose clip indicator is 1.
C9_Witness ==
    /\ IsLossCall /\ ConfigType = "clip" /\ Returns
    /\ \E pos, other \in Positions(args.loss_mask) :
            /\ R(pos) = Scale /\ At(frame.is_clipped, pos) = Fin(0)
            /\ At(frame.is_clipped, other) = One

\* C7: positions where the loss mask is 0 never influence the outputs: two
\* engine calls whose inputs differ only at masked-out positions return the
\* same loss, ratio and clipped-token count, and _masked_sum with an
\* all-zero mask returns exactly 0 for any tensor.
C7_MaskedPositionsNeverInfluence ==
    /\ (fn = "grpo_loss" /\ args2 # None /\ Called) => ret = ret2
    /\ (fn = "_masked_sum" /\ Returns /\ \A pos \in Positions(args.mask) : At(args.mask, pos) = 0)
            => ret = Fin(0)

\* The same, for inputs whose elements are all finite.
AllFinite(t) == \A pos \in Positions(t) : IsFin(At(t, pos))

MaskedPositionsNeverInfluenceFinite ==
    /\ (fn = "grpo_loss" /\ args2 # None /\ Called
            /\ AllFinite(args.advantages) /\ AllFinite(args2.advantages))
        => ret = ret2
    /\ (fn = "_masked_sum" /\ Returns /\ AllFinite(args.tensor)
            /\ \A pos \in Positions(args.mask) : At(args.mask, pos) = 0)
        => ret = Fin(0)

====
